---- MODULE Spec2Model ----
(***************************************************************************)
(* A model of MFALib: the signed session tokens of src/jwt/jwt_handler.py, *)
(* the emailed one-time codes of src/otp/otp_email_handler.py with the     *)
(* verification loop of src/main.py, and the time-based codes of           *)
(* src/otp/otp_handler.py.                                                 *)
(*                                                                         *)
(* Time is one wall clock, `now`, counted in ticks of 1/TicksPerSecond of  *)
(* a second, so that conversions that truncate to whole seconds are seen.  *)
(***************************************************************************)
EXTENDS Integers, Sequences, FiniteSets, TLC

VARIABLES
    now,          \* the wall clock, in ticks
    token,        \* the token last returned by JWTHandler.create_token
    jwt_call,     \* the last call of the JWT API and what it returned
    totp,         \* the secret of the OTPHandler in use
    app_code,     \* the code the user's authenticator shows
    totp_call,    \* the last call of OTPHandler.verify_otp and what it returned
    otp_code,     \* exemplo_opt's otp_code: what send_otp_email returned
    mail,         \* the last call of send_otp_email: its arguments and what it did
    attempt,      \* the last pass of exemplo_opt's verification loop
    had_success   \* whether a pass of the loop has matched the held code

jwtVars == <<token, jwt_call>>
totpVars == <<totp, app_code, totp_call>>
emailVars == <<otp_code, mail, attempt, had_success>>
vars == <<now, token, jwt_call, totp, app_code, totp_call,
          otp_code, mail, attempt, had_success>>

(***************************************************************************)
(* Bounds of the model.                                                    *)
(***************************************************************************)
TicksPerSecond == 2
\* clock instants kept around each point of interest, in ticks
MaxJitter == 2

(***************************************************************************)
(* src/jwt/jwt_handler.py: module configuration (lines 7-9).               *)
(***************************************************************************)
SECRET_KEY == "chave_padrao_teste"
ALGORITHM == "HS256"
EXP_MINUTES == 60
\* a key the server does not hold (a forger's)
OTHER_KEY == "outra_chave"

NoPayload == [user_id |-> 0, email |-> "", role |-> "", permissions |-> <<>>, exp |-> 0]
NoToken == [claims |-> <<>>, sig |-> <<>>]
\* what a call returned: a payload, a permission list, or the exception raised
Ret(kind, payload, perms) == [kind |-> kind, payload |-> payload, perms |-> perms]
Call(op, tok, role, result) == [op |-> op, tok |-> tok, role |-> role, result |-> result]
NoCall == Call("none", NoToken, "", Ret("none", NoPayload, <<>>))

TicksPerMinute == 60 * TicksPerSecond

(***************************************************************************)
(* Inputs of the JWT API.                                                  *)
(***************************************************************************)
UserIds == {1, 2}
Emails == <<"ana@example.com", "bob@example.com">>
\* role strings a caller may pass: the configured ones, a case variant and
\* the empty string
Roles == <<"admin", "escritor", "leitor", "Admin", "">>

Range(s) == {s[i] : i \in DOMAIN s}
IndexOf(s, x) == CHOOSE i \in DOMAIN s : s[i] = x

(***************************************************************************)
(* JWTHandler._get_permissions (jwt_handler.py:13-23).                     *)
(***************************************************************************)
GetPermissionsAnyCase(role) ==
    IF role \in {"admin", "Admin"} THEN <<"read", "write", "manage_permissions">>
    ELSE IF role = "escritor" THEN <<"read", "write">>
    ELSE IF role = "leitor" THEN <<"read">>
    ELSE <<>>

GetPermissions(role) ==
    IF role = "admin" THEN <<"read", "write", "manage_permissions">>
    ELSE IF role = "escritor" THEN <<"read", "write">>
    ELSE IF role = "leitor" THEN <<"read">>
    ELSE <<>>

\* the permission lists a payload can carry, for the claims encoding
PermLists == << <<>>, <<"read">>, <<"read", "write">>,
                <<"read", "write", "manage_permissions">> >>

(***************************************************************************)
(* base64url, as PyJWT's base64url_encode / base64url_decode do it over    *)
(* Python's base64 module: characters are ASCII codes.                     *)
(***************************************************************************)
B64Char(v) ==
    IF v < 26 THEN 65 + v
    ELSE IF v < 52 THEN 97 + (v - 26)
    ELSE IF v < 62 THEN 48 + (v - 52)
    ELSE IF v = 62 THEN 45
    ELSE 95

\* the 6-bit value of a character, -1 for a character outside the alphabet.
\* urlsafe_b64decode maps '-' and '_' to '+' and '/' and then decodes the
\* standard alphabet, so '+' (43) and '/' (47) are accepted as well.
B64Value(c) ==
    IF c >= 65 /\ c <= 90 THEN c - 65
    ELSE IF c >= 97 /\ c <= 122 THEN c - 97 + 26
    ELSE IF c >= 48 /\ c <= 57 THEN c - 48 + 52
    ELSE IF c = 45 \/ c = 43 THEN 62
    ELSE IF c = 95 \/ c = 47 THEN 63
    ELSE -1

B64Valid(seg) == \A i \in DOMAIN seg : B64Value(seg[i]) >= 0

\* one bit of one character flipped
FlipBit(c, b) == IF (c \div (2 ^ b)) % 2 = 1 THEN c - 2 ^ b ELSE c + 2 ^ b
FlipSeg(seg, i, b) == [seg EXCEPT ![i] = FlipBit(seg[i], b)]

(***************************************************************************)
(* The claims segment: the payload serialised and base64url-encoded by     *)
(* jwt.encode (jwt_handler.py:43).  The serialisation is modelled as one   *)
(* character per field and three for exp (a whole number of seconds); a    *)
(* segment that is no serialisation of a payload does not parse.           *)
(***************************************************************************)
ExpChars(exp) ==
    <<B64Char(exp \div 4096), B64Char((exp \div 64) % 64), B64Char(exp % 64)>>

EncodeClaims(p) ==
    <<B64Char(p.user_id),
      B64Char(IndexOf(Emails, p.email)),
      B64Char(IndexOf(Roles, p.role)),
      B64Char(IndexOf(PermLists, p.permissions))>> \o ExpChars(p.exp)

ClaimsParse(seg) ==
    /\ Len(seg) = 7
    /\ B64Valid(seg)
    /\ B64Value(seg[2]) \in DOMAIN Emails
    /\ B64Value(seg[3]) \in DOMAIN Roles
    /\ B64Value(seg[4]) \in DOMAIN PermLists

DecodeClaims(seg) ==
    [user_id |-> B64Value(seg[1]),
     email |-> Emails[B64Value(seg[2])],
     role |-> Roles[B64Value(seg[3])],
     permissions |-> PermLists[B64Value(seg[4])],
     exp |-> B64Value(seg[5]) * 4096 + B64Value(seg[6]) * 64 + B64Value(seg[7])]

(***************************************************************************)
(* The signature: HS256 over the signing input (header and claims          *)
(* segments), keyed by the secret.  The model's tag is two bytes, so that  *)
(* its encoding, like that of HS256's 32 bytes, ends in a character that   *)
(* carries four bits of the tag and two unused bits.  The tag is a keyed   *)
(* sum modulo the prime 65521: changing one character of the signing input *)
(* changes the tag, as it does HMAC's up to collisions.                    *)
(***************************************************************************)
KeyTerm(key) == IF key = SECRET_KEY THEN 7919 ELSE 104729

RECURSIVE WeightedSum(_, _)
WeightedSum(seg, i) ==
    IF i > Len(seg) THEN 0 ELSE (i + 1) * seg[i] + WeightedSum(seg, i + 1)

Hmac(key, seg) == (KeyTerm(key) + 257 * WeightedSum(seg, 1)) % 65521

EncodeSig(tag) ==
    <<B64Char(tag \div 1024), B64Char((tag \div 16) % 64), B64Char((tag % 16) * 4)>>

\* base64url_decode of the signature segment: Python's decoder skips the
\* characters outside the alphabet and drops the bits left over after the
\* last whole byte.  With a character skipped the padding PyJWT added no
\* longer fits and no signature of full length comes out: -1.
DecodeSig(seg) ==
    IF Len(seg) = 3 /\ B64Valid(seg)
    THEN (B64Value(seg[1]) * 4096 + B64Value(seg[2]) * 64 + B64Value(seg[3])) \div 4
    ELSE -1

SignToken(p, key) ==
    [claims |-> EncodeClaims(p), sig |-> EncodeSig(Hmac(key, EncodeClaims(p)))]

(***************************************************************************)
(* JWTHandler.create_token (jwt_handler.py:26-44).  utcnow() + timedelta   *)
(* is a datetime; jwt.encode writes it as whole seconds since the epoch.   *)
(***************************************************************************)
TokenPayloadByUser(user_id, email, role, at) ==
    [user_id |-> user_id, email |-> email, role |-> role,
     permissions |-> IF user_id = 1 THEN GetPermissions("admin") ELSE GetPermissions(role),
     exp |-> (at \div TicksPerSecond) + 60 * EXP_MINUTES]

TokenPayload(user_id, email, role, at) ==
    [user_id |-> user_id, email |-> email, role |-> role,
     permissions |-> GetPermissions(role),
     exp |-> (at \div TicksPerSecond) + 60 * EXP_MINUTES]

(***************************************************************************)
(* JWTHandler.decode_token (jwt_handler.py:47-59): jwt.decode verifies the *)
(* signature over the signing input, then parses the payload, then         *)
(* validates exp against the clock (expired when exp <= now); the handler  *)
(* maps ExpiredSignatureError to TokenExpiredError and every other         *)
(* jwt.InvalidTokenError to InvalidTokenError.                             *)
(***************************************************************************)
SignatureValid(tok, key) == DecodeSig(tok.sig) = Hmac(key, tok.claims)

ExpiredAfter(exp, at) == exp * TicksPerSecond < at

Expired(exp, at) == exp * TicksPerSecond <= at

JwtDecodeExpiryFirst(tok, key, at) ==
    IF ClaimsParse(tok.claims) /\ Expired(DecodeClaims(tok.claims).exp, at)
    THEN Ret("TokenExpiredError", NoPayload, <<>>)
    ELSE IF ~SignatureValid(tok, key) \/ ~ClaimsParse(tok.claims)
    THEN Ret("InvalidTokenError", NoPayload, <<>>)
    ELSE Ret("payload", DecodeClaims(tok.claims), <<>>)

JwtDecodeClaimsOnly(tok, key, at) ==
    IF DecodeSig(tok.sig) < 0 \/ ~ClaimsParse(tok.claims)
    THEN Ret("InvalidTokenError", NoPayload, <<>>)
    ELSE IF Expired(DecodeClaims(tok.claims).exp, at)
    THEN Ret("TokenExpiredError", NoPayload, <<>>)
    ELSE Ret("payload", DecodeClaims(tok.claims), <<>>)

JwtDecode(tok, key, at) ==
    IF ~SignatureValid(tok, key)
    THEN Ret("InvalidTokenError", NoPayload, <<>>)
    ELSE IF ~ClaimsParse(tok.claims)
    THEN Ret("InvalidTokenError", NoPayload, <<>>)
    ELSE IF Expired(DecodeClaims(tok.claims).exp, at)
    THEN Ret("TokenExpiredError", NoPayload, <<>>)
    ELSE Ret("payload", DecodeClaims(tok.claims), <<>>)

(***************************************************************************)
(* src/otp/otp_handler.py.  OTPHandler.__init__ (lines 8-9) builds         *)
(* pyotp.TOTP(secret_key) with pyotp's defaults: six digits and a step of  *)
(* 30 seconds.  verify_otp (lines 53-64) calls TOTP.verify(otp_code) with  *)
(* no for_time and no valid_window, which are then the current time and 0: *)
(* verify compares the candidate with the code of each step from           *)
(* -valid_window to +valid_window around the current one.                  *)
(***************************************************************************)
TotpInterval == 30
ValidWindow == 0
\* the secrets generate_secret_key may return, and one the handler never has
Secrets == {"JBSWY3DPEHPK3PXP", "GEZDGNBVGY3TQOJQ"}
NoSecret == ""
SecretTerm(secret) == IF secret = "JBSWY3DPEHPK3PXP" THEN 100003 ELSE 611953

\* the six-digit code of a counter: HOTP's truncated HMAC, modelled as a
\* keyed residue that differs between the counters the model reaches
Hotp(secret, counter) == (SecretTerm(secret) + 7919 * counter) % 1000000

TimeCode(at) == (at \div TicksPerSecond) \div TotpInterval
TotpAt(secret, at, offset) == Hotp(secret, TimeCode(at) + offset)

TotpVerify(secret, code, at) ==
    \E i \in -ValidWindow..ValidWindow : code = TotpAt(secret, at, i)

NoAppCode == [code |-> -1, step |-> -1, secret |-> NoSecret]
NoTotpCall == [op |-> "none", code |-> -1, result |-> FALSE]

(***************************************************************************)
(* src/otp/otp_email_handler.py and src/email/email_sender.py.  A Python   *)
(* value that is a string or None is a record: kind "str" with the string, *)
(* or kind "None".  A code is the sequence of its digits.                  *)
(***************************************************************************)
OtpLength == 6
DefaultExpiryMinutes == 10
\* the digits the model lets secrets.choice draw (string.digits has all ten)
DigitChoices == {0, 9}
\* what generate_otp (lines 24-41) may return
GenerateOtp == [1..OtpLength -> DigitChoices]

PyNone == [kind |-> "None", code |-> <<>>]
PyStr(code) == [kind |-> "str", code |-> code]
NoOtp == [kind |-> "unset", code |-> <<>>]

\* a rendered template: which one, and the values rendered into it
Rendered(kind, code, expiry) == [kind |-> kind, otp_code |-> code, expiry_minutes |-> expiry]
NoText == Rendered("None", <<>>, 0)

\* _get_html_template (lines 43-65): the rendering when the file exists
GetHtmlTemplate(template_exists, code, expiry) ==
    IF template_exists THEN Rendered("html", code, expiry) ELSE NoText

\* _get_text_template (lines 67-91)
GetTextTemplate(code, expiry) == Rendered("text", code, expiry)

\* EmailBody (email_sender.py:10-13) or a plain string handed to send_email
EmailBody(text, subtype) == [cls |-> "EmailBody", text |-> text, subtype |-> subtype]
StrBody(text) == [cls |-> "str", text |-> text, subtype |-> ""]
\* Python's truth value: an instance of a dataclass that defines neither
\* __bool__ nor __len__ is true; a string is true when it is not empty
Truthy(body) == body.cls = "EmailBody" \/ body.text.kind # "None"

\* the body send_otp_email hands to send_email (lines 130-138)
BodyHanded(template_exists, code, expiry) ==
    LET body == EmailBody(GetHtmlTemplate(template_exists, code, expiry), "html")
    IN  IF Truthy(body) THEN body ELSE StrBody(GetTextTemplate(code, expiry))

\* SmtpEmailSender.send_email (email_sender.py:37-75): the message is built
\* (set_content / add_alternative raise on a content of None), then
\* aiosmtplib.send is called once; its failure is logged and raised again.
SendEmail(body, smtp_ok) ==
    IF body.text.kind = "None"
    THEN [outcome |-> "raised", smtp_sends |-> 0]
    ELSE [outcome |-> IF smtp_ok THEN "sent" ELSE "raised", smtp_sends |-> 1]

\* what send_otp_email returns (lines 93, 141-142): the code, or None when
\* @logger.catch caught an exception
SendOtpResultAlwaysCode(code, outcome) == PyStr(code)

SendOtpResult(code, outcome) == IF outcome = "sent" THEN PyStr(code) ELSE PyNone

NoMail ==
    [called |-> FALSE, given |-> PyNone, expiry |-> 0, code |-> <<>>,
     body |-> StrBody(NoText), send_calls |-> 0, smtp_sends |-> 0,
     outcome |-> "none", at |-> 0, template_exists |-> FALSE]

(***************************************************************************)
(* exemplo_opt's verification (main.py:30-37): the typed string is         *)
(* compared with otp_code; a mismatch prints and asks again.               *)
(***************************************************************************)
CodeMatches(candidate, held) == held.kind = "str" /\ candidate = held.code

\* otp_code after a pass of the loop: no branch assigns it
HeldAfterPassConsuming(held, candidate) ==
    IF CodeMatches(candidate, held) THEN held ELSE PyNone

HeldAfterPass(held, candidate) == held

NoAttempt ==
    [made |-> FALSE, candidate |-> <<>>, result |-> FALSE,
     after_success |-> FALSE, failed_before |-> 0]
FailuresSoFar(a) == a.failed_before + (IF a.made /\ ~a.result THEN 1 ELSE 0)

\* what the user may type: the held code, a code with another first digit, a
\* code cut short, nothing
Typed(held) ==
    LET c == IF held.kind = "str" THEN held.code ELSE [i \in 1..OtpLength |-> 0]
    IN  {c, [c EXCEPT ![1] = IF c[1] = 0 THEN 9 ELSE 0], SubSeq(c, 1, Len(c) - 1), <<>>}

(***************************************************************************)
(* The tokens a client may hand to decode_token: the issued one, the       *)
(* issued one with one bit of its claims or signature segment flipped, and *)
(* forgeries signed with a key that is not the server's.                   *)
(***************************************************************************)
ClaimsFlips(tok) ==
    {[tok EXCEPT !.claims = FlipSeg(tok.claims, i, b)] :
        i \in DOMAIN tok.claims, b \in 0..7}
SigFlips(tok) ==
    {[tok EXCEPT !.sig = FlipSeg(tok.sig, i, b)] : i \in DOMAIN tok.sig, b \in 0..7}
Forgeries(tok) ==
    LET p == DecodeClaims(tok.claims)
    IN  {SignToken(p, OTHER_KEY),
         SignToken([p EXCEPT !.permissions = GetPermissions("admin")], OTHER_KEY)}
Presentable(tok) == {tok} \cup ClaimsFlips(tok) \cup SigFlips(tok) \cup Forgeries(tok)

\* the instants the clock takes: around the start and around one token
\* lifetime later
JwtInstants ==
    {b + j : b \in {0, TicksPerMinute * EXP_MINUTES}, j \in 0..MaxJitter}

CreateToken(user_id, email, role) ==
    /\ token' = SignToken(TokenPayload(user_id, email, role, now), SECRET_KEY)
    /\ jwt_call' = Call("create_token", token', role, Ret("token", NoPayload, <<>>))
    /\ UNCHANGED <<now, totpVars, emailVars>>

DecodeToken(tok) ==
    /\ jwt_call' = Call("decode_token", tok, "", JwtDecode(tok, SECRET_KEY, now))
    /\ UNCHANGED <<now, token, totpVars, emailVars>>

CallGetPermissions(role) ==
    /\ jwt_call' = Call("_get_permissions", NoToken, role,
                        Ret("permissions", NoPayload, GetPermissions(role)))
    /\ UNCHANGED <<now, token, totpVars, emailVars>>

\* time passes; the value a call returned belongs to the instant of the call
AdvanceJwt ==
    /\ \E t \in JwtInstants : t > now /\ now' = t
    /\ jwt_call' = NoCall
    /\ UNCHANGED <<token, totpVars, emailVars>>

Init ==
    /\ now = 0
    /\ token = NoToken
    /\ jwt_call = NoCall
    /\ totp = NoSecret
    /\ app_code = NoAppCode
    /\ totp_call = NoTotpCall
    /\ otp_code = NoOtp
    /\ mail = NoMail
    /\ attempt = NoAttempt
    /\ had_success = FALSE

NextJwt ==
    \/ \E u \in UserIds, e \in Range(Emails), r \in Range(Roles) : CreateToken(u, e, r)
    \/ (token # NoToken /\ \E tok \in Presentable(token) : DecodeToken(tok))
    \/ \E r \in Range(Roles) : CallGetPermissions(r)
    \/ AdvanceJwt

SpecJwt == Init /\ [][NextJwt]_vars

(***************************************************************************)
(* The time-based codes.                                                   *)
(***************************************************************************)
\* codes are shown for the steps 0..MaxCodeStep; the clock runs in half
\* steps up to MaxHalfSteps of them
MaxCodeStep == 2
MaxHalfSteps == 10
StepTicks == TotpInterval * TicksPerSecond

\* exemplo_totp (main.py:42-43): a fresh secret and its handler
SetupTotp(secret) ==
    /\ totp' = secret
    /\ app_code' = NoAppCode
    /\ totp_call' = NoTotpCall
    /\ UNCHANGED <<now, jwtVars, emailVars>>

\* the user's authenticator, enrolled with a secret, shows the code of the
\* step that starts at step * TotpInterval seconds on its own clock
ShowCode(secret, step) ==
    /\ totp # NoSecret
    /\ app_code' = [code |-> Hotp(secret, step), step |-> step, secret |-> secret]
    /\ totp_call' = NoTotpCall
    /\ UNCHANGED <<now, totp, jwtVars, emailVars>>

VerifyOtp(code) ==
    /\ totp # NoSecret
    /\ totp_call' = [op |-> "verify_otp", code |-> code,
                     result |-> TotpVerify(totp, code, now)]
    /\ UNCHANGED <<now, totp, app_code, jwtVars, emailVars>>

AdvanceTotp ==
    /\ now + StepTicks \div 2 <= MaxHalfSteps * (StepTicks \div 2)
    /\ now' = now + StepTicks \div 2
    /\ totp_call' = NoTotpCall
    /\ UNCHANGED <<totp, app_code, jwtVars, emailVars>>

NextTotp ==
    \/ \E secret \in Secrets : SetupTotp(secret)
    \/ \E secret \in Secrets, step \in 0..MaxCodeStep : ShowCode(secret, step)
    \/ (app_code # NoAppCode
          /\ \E code \in {app_code.code, (app_code.code + 1) % 1000000} : VerifyOtp(code))
    \/ AdvanceTotp

SpecTotp == Init /\ [][NextTotp]_vars

(***************************************************************************)
(* The emailed codes.                                                      *)
(***************************************************************************)
\* the minutes the clock runs to, the last minute a code is sent in, and
\* the failed passes counted
MaxEmailMinutes == 12
MaxSendMinute == 1
MaxFailures == 2
\* the codes and validities a caller passes to send_otp_email
GivenCodes == {PyNone, PyStr([i \in 1..OtpLength |-> 9])}
ExpiryChoices == {DefaultExpiryMinutes}

\* OtpEmailHandler.send_otp_email (lines 93-142), with the send_email it
\* awaits, called as exemplo_opt does (main.py:24-27) or with a code
SendOtpEmail(given, expiry, template_exists, smtp_ok) ==
    /\ now <= MaxSendMinute * TicksPerMinute
    /\ \E code \in (IF given.kind = "None" THEN GenerateOtp ELSE {given.code}) :
         LET body == BodyHanded(template_exists, code, expiry)
             sent == SendEmail(body, smtp_ok)
         IN  /\ mail' = [called |-> TRUE, given |-> given, expiry |-> expiry,
                         code |-> code, body |-> body, send_calls |-> 1,
                         smtp_sends |-> sent.smtp_sends, outcome |-> sent.outcome,
                         at |-> now, template_exists |-> template_exists]
             /\ otp_code' = SendOtpResult(code, sent.outcome)
    /\ attempt' = NoAttempt
    /\ had_success' = FALSE
    /\ UNCHANGED <<now, jwtVars, totpVars>>

\* one pass of the loop of main.py:31-37.  exemplo_opt stops asking at the
\* first match; the string stays in otp_code and no code marks it used, so
\* a further pass is the same comparison with the same string.
VerifyAttempt(candidate) ==
    /\ otp_code # NoOtp
    /\ CodeMatches(candidate, otp_code) \/ FailuresSoFar(attempt) < MaxFailures
    /\ attempt' = [made |-> TRUE, candidate |-> candidate,
                   result |-> CodeMatches(candidate, otp_code),
                   after_success |-> had_success,
                   failed_before |-> FailuresSoFar(attempt)]
    /\ had_success' = (had_success \/ CodeMatches(candidate, otp_code))
    /\ otp_code' = HeldAfterPass(otp_code, candidate)
    /\ UNCHANGED <<now, mail, jwtVars, totpVars>>

\* a minute passes while input() waits
AdvanceEmail ==
    /\ now + TicksPerMinute <= MaxEmailMinutes * TicksPerMinute
    /\ now' = now + TicksPerMinute
    /\ attempt' = [NoAttempt EXCEPT !.failed_before = FailuresSoFar(attempt)]
    /\ UNCHANGED <<otp_code, mail, had_success, jwtVars, totpVars>>

NextEmail ==
    \/ \E given \in GivenCodes, expiry \in ExpiryChoices,
          template_exists \in BOOLEAN, smtp_ok \in BOOLEAN :
            SendOtpEmail(given, expiry, template_exists, smtp_ok)
    \/ \E candidate \in Typed(otp_code) : VerifyAttempt(candidate)
    \/ AdvanceEmail

SpecEmail == Init /\ [][NextEmail]_vars

(***************************************************************************)
(* Claims about the emailed codes, checked under SpecEmail.                *)
(***************************************************************************)
Issued == mail.called /\ mail.outcome = "sent"
ExpiresAt == mail.at + mail.expiry * TicksPerMinute

\* C1, as stated: of the attempts against one issued code, the first with
\* the correct code returns true, and every attempt after a successful one
\* returns false, whatever was typed.
C1_VerifiableExactlyOnce ==
    (Issued /\ attempt.made) =>
        IF attempt.after_success
        THEN ~attempt.result
        ELSE (attempt.candidate = mail.code => attempt.result)

\* C2, as stated: an attempt made at or after creation time + expiry_minutes
\* returns false even with the issued code, and, for a validity of 10
\* minutes, the issued code is accepted 9 minutes after creation.
C2_RejectedFromExpiryOn ==
    (Issued /\ attempt.made /\ ~attempt.after_success /\ attempt.candidate = mail.code) =>
        /\ now >= ExpiresAt => ~attempt.result
        /\ now = mail.at + 9 * TicksPerMinute => attempt.result

\* C8: passes with a wrong candidate leave the held code as issued, and a
\* pass with the issued code, before expiry and before any success, succeeds
\* however many passes failed before it.
C8_WrongCandidateKeepsCode ==
    Issued =>
        /\ otp_code = PyStr(mail.code)
        /\ (attempt.made /\ attempt.candidate = mail.code
              /\ ~attempt.after_success /\ now < ExpiresAt)
              => attempt.result

C8_Witness ==
    /\ Issued
    /\ attempt.made
    /\ attempt.failed_before >= 2
    /\ attempt.candidate = mail.code
    /\ ~attempt.after_success
    /\ now < ExpiresAt
    /\ attempt.result

\* C9: a call of send_otp_email calls send_email once, which sends at most
\* once; it returns the code only when send_email completed, the returned
\* code is the one rendered into the body (the supplied one when one was
\* supplied, a generated one otherwise), and it returns None when send_email
\* raised.
C9_OneDeliveryFailureNotSuccess ==
    mail.called =>
        /\ mail.send_calls = 1
        /\ mail.smtp_sends <= 1
        /\ otp_code.kind = "str" =>
              /\ mail.outcome = "sent"
              /\ mail.smtp_sends = 1
              /\ mail.body.text.otp_code = otp_code.code
              /\ mail.given.kind = "str" => otp_code.code = mail.given.code
              /\ mail.given.kind = "None" => otp_code.code \in GenerateOtp
        /\ mail.outcome # "sent" => otp_code = PyNone

C9_Witness ==
    /\ mail.called
    /\ mail.given.kind = "None"
    /\ mail.smtp_sends = 1
    /\ mail.outcome = "raised"
    /\ otp_code = PyNone

\* C11, as stated: send_otp_email hands send_email the rendered HTML body
\* when the template file exists, and otherwise the plain-text content of
\* _get_text_template with the code and the expiry minutes, never an
\* HTML-typed body without text.
C11_PlainTextFallback ==
    mail.called =>
        IF mail.template_exists
        THEN mail.body = EmailBody(Rendered("html", mail.code, mail.expiry), "html")
        ELSE /\ mail.body.text = Rendered("text", mail.code, mail.expiry)
             /\ ~(mail.body.subtype = "html" /\ mail.body.text.kind = "None")

(***************************************************************************)
(* Claims about the time-based codes, checked under SpecTotp.              *)
(***************************************************************************)
\* C7, as stated: the code of the step that starts at t is accepted when
\* verify_otp runs at t - 30 s, at t and at t + 30 s, and rejected when it
\* runs at t + 90 s.
C7_DriftToleranceOfOneStep ==
    (totp_call.op = "verify_otp" /\ totp_call.code = app_code.code
        /\ app_code.secret = totp) =>
        LET t == app_code.step * StepTicks
        IN  /\ now \in {t - StepTicks, t, t + StepTicks} => totp_call.result
            /\ now = t + 3 * StepTicks => ~totp_call.result

(***************************************************************************)
(* Claims about the session tokens, checked under SpecJwt.                 *)
(***************************************************************************)
IsDecode == jwt_call.op = "decode_token"
\* the presented token carries the issued claims segment and a signature
\* segment that decodes to the issued signature
CarriesIssuedSignature(tok) ==
    /\ tok.claims = token.claims
    /\ DecodeSig(tok.sig) = DecodeSig(token.sig)

\* C3, as stated: decode_token fails with InvalidTokenError for every token
\* that differs from the issued one in one bit of its claims segment or of
\* its signature segment.
C3_AnyBitFlipIsInvalid ==
    (IsDecode /\ jwt_call.tok \in ClaimsFlips(token) \cup SigFlips(token))
        => jwt_call.result.kind = "InvalidTokenError"

\* C3, amended: decode_token fails with InvalidTokenError for every token
\* that differs from the issued one in one bit of its claims segment, or in
\* one bit of its signature segment that changes the signature the segment
\* decodes to, and for forgeries under another key; it returns a payload
\* only for a token that carries the issued claims and signature.
C3_TamperedTokenIsInvalid ==
    IsDecode =>
        /\ jwt_call.tok \in ClaimsFlips(token)
              => jwt_call.result.kind = "InvalidTokenError"
        /\ (jwt_call.tok \in SigFlips(token)
              /\ DecodeSig(jwt_call.tok.sig) # DecodeSig(token.sig))
              => jwt_call.result.kind = "InvalidTokenError"
        /\ jwt_call.tok \in Forgeries(token)
              => jwt_call.result.kind = "InvalidTokenError"
        /\ jwt_call.result.kind = "payload" => CarriesIssuedSignature(jwt_call.tok)

C3_Witness ==
    /\ IsDecode
    /\ jwt_call.tok \in SigFlips(token)
    /\ DecodeSig(jwt_call.tok.sig) >= 0
    /\ DecodeSig(jwt_call.tok.sig) # DecodeSig(token.sig)
    /\ jwt_call.result.kind = "InvalidTokenError"

\* C4: for the issued token, unmodified, decode_token returns the payload
\* if and only if the clock is before the token's exp, and the payload is
\* the issued one; at or past exp it fails with TokenExpiredError.
C4_ExpiryDecidesUnmodifiedToken ==
    (IsDecode /\ jwt_call.tok = token) =>
        LET p == DecodeClaims(token.claims)
        IN  /\ jwt_call.result.kind = "payload" <=> now < p.exp * TicksPerSecond
            /\ jwt_call.result.kind = "payload" => jwt_call.result.payload = p
            /\ now >= p.exp * TicksPerSecond
                  => jwt_call.result.kind = "TokenExpiredError"

C4_Witness ==
    /\ IsDecode
    /\ jwt_call.tok = token
    /\ now = DecodeClaims(token.claims).exp * TicksPerSecond
    /\ jwt_call.result.kind = "TokenExpiredError"

\* C5: the permissions claim of every issued token is the list the role
\* policy gives for the token's role, whatever user_id and email were
\* passed, and a token issued for admin decodes to the admin permissions.
C5_PermissionsFollowRole ==
    /\ token # NoToken =>
          LET p == DecodeClaims(token.claims)
          IN  p.permissions = GetPermissions(p.role)
    /\ jwt_call.op = "create_token" => DecodeClaims(token.claims).role = jwt_call.role
    /\ (IsDecode /\ jwt_call.result.kind = "payload"
            /\ jwt_call.result.payload.role = "admin")
          => Range(jwt_call.result.payload.permissions)
                = {"read", "write", "manage_permissions"}

C5_Witness ==
    /\ IsDecode
    /\ jwt_call.result.kind = "payload"
    /\ jwt_call.result.payload.role = "admin"
    /\ jwt_call.result.payload.user_id = 2
    /\ Range(jwt_call.result.payload.permissions) = {"read", "write", "manage_permissions"}

\* C6: _get_permissions returns, without raising, read/write/manage_permissions
\* for admin, read/write for escritor, read for leitor, and the empty list
\* for every other role string, '' and 'Admin' among them.
C6_RoleTable ==
    jwt_call.op = "_get_permissions" =>
        /\ jwt_call.result.kind = "permissions"
        /\ Range(jwt_call.result.perms) =
              CASE jwt_call.role = "admin" -> {"read", "write", "manage_permissions"}
                [] jwt_call.role = "escritor" -> {"read", "write"}
                [] jwt_call.role = "leitor" -> {"read"}
                [] OTHER -> {}

C6_Witness ==
    /\ jwt_call.op = "_get_permissions"
    /\ jwt_call.role = "Admin"
    /\ jwt_call.result.perms = <<>>

\* C10: decode_token fails with TokenExpiredError only for a token whose
\* signature is valid, and a token past its exp whose signature is invalid
\* fails with InvalidTokenError.
C10_SignatureBeforeExpiry ==
    IsDecode =>
        /\ jwt_call.result.kind = "TokenExpiredError"
              => (SignatureValid(jwt_call.tok, SECRET_KEY)
                    /\ CarriesIssuedSignature(jwt_call.tok))
        /\ (~SignatureValid(jwt_call.tok, SECRET_KEY)
              /\ ClaimsParse(jwt_call.tok.claims)
              /\ now >= DecodeClaims(jwt_call.tok.claims).exp * TicksPerSecond)
              => jwt_call.result.kind = "InvalidTokenError"

C10_Witness ==
    /\ IsDecode
    /\ ~SignatureValid(jwt_call.tok, SECRET_KEY)
    /\ ClaimsParse(jwt_call.tok.claims)
    /\ now >= DecodeClaims(jwt_call.tok.claims).exp * TicksPerSecond
    /\ jwt_call.result.kind = "InvalidTokenError"

====
